---------------------------- MODULE Spec2Model ----------------------------
(***************************************************************************)
(* The two ACS notebooks (acs_pixel_area_maps, acs_sbc_dark_analysis) as   *)
(* one state machine.  A notebook is a list of code cells evaluated by a   *)
(* single kernel: the state is the kernel's namespace (ns), the files of   *)
(* the working directory (cwd) and of the mastDownload tree (mast), and    *)
(* the position of the user in the document (pc).  One action per code     *)
(* cell; a cell that raises stops at the raising statement, keeps what the *)
(* statements before it did, and the user goes on with the next cell.      *)
(*                                                                         *)
(* Source lines are those of the .ipynb files:                             *)
(*   PAM  = src/acs_pixel_area_maps/.ipynb_checkpoints/...-checkpoint.ipynb*)
(*   DARK = src/acs_sbc_dark_analysis/.ipynb_checkpoints/...-checkpoint... *)
(***************************************************************************)
EXTENDS Integers, Sequences, FiniteSets, TLC

(***************************************************************************)
(* Bounds of the model.                                                    *)
(***************************************************************************)
\* pixels per image array (the real arrays are 4096x2048 and 1024x1024)
NPix == 2
\* pixel values of the WFC science arrays range over 1..MaxCount
MaxCount == 2
\* EXPTIME of the WFC exposure ranges over 1..MaxExpTime
MaxExpTime == 2
\* how many products of the science visit, in download order, are modelled
NumSciProducts == 4
\* MDECODT1/MDECODT2 readings range over MinTemp..MaxTemp (degrees C)
MinTemp == 24
MaxTemp == 25
\* how many products of one download call may end with status ERROR
MaxDownloadErrors == 1
\* re-executions of cells after the first run in document order
MaxReruns == 1

(***************************************************************************)
(* Helpers.                                                                *)
(***************************************************************************)
Range(s) == {s[i] : i \in DOMAIN s}

\* all orderings of a finite set, as sequences
Orderings(S) ==
    {s \in [1..Cardinality(S) -> S] : \A i, j \in DOMAIN s : i # j => s[i] # s[j]}

\* the sequence s restricted to the elements satisfying Keep, order kept
RECURSIVE SelectIn(_, _)
SelectIn(s, K) ==
    IF s = <<>> THEN <<>>
    ELSE IF Head(s) \in K THEN <<Head(s)>> \o SelectIn(Tail(s), K)
         ELSE SelectIn(Tail(s), K)

\* a function without the keys in K
Without(f, K) == [x \in DOMAIN f \ K |-> f[x]]

\* exact rationals, for Python 3 true division
Rat(n, d) == [num |-> n, den |-> d]
RatLeq(a, b) == a.num * b.den <= b.num * a.den
RatEq(a, b) == a.num * b.den = b.num * a.den

(***************************************************************************)
(* FITS files.  A file is a primary header (keyword -> value) and a        *)
(* sequence of extensions, each with a name, a header and a data array.    *)
(***************************************************************************)
HDU(name, hdr, data) == [name |-> name, hdr |-> hdr, data |-> data]
NoHdr == [k \in {} |-> 0]
NoData == <<>>
FitsFile(hdr, data, ext) == [hdr |-> hdr, data |-> data, ext |-> ext]

\* an array of the archive that the notebooks never look into: named by origin
Arr(f, e) == <<f, e>>

\* fits.getdata(file, ext=e): the data of extension e (0 is the primary HDU)
getdata_ext(file, e) == IF e = 0 THEN file.data ELSE file.ext[e].data
\* fits.getdata(file): the primary data or, when the primary HDU has none,
\* the data of the first extension
getdata(file) == IF file.data # NoData THEN file.data ELSE file.ext[1].data
\* fits.getval(file, key, ext=e)
getval(file, key, e) == IF e = 0 THEN file.hdr[key] ELSE file.ext[e].hdr[key]

\* os.path.basename of a path given by its components
basename(path) == path[Len(path)]
\* where download_products puts a product
LocalPath(p) == <<"mastDownload", "HST", p.obs, p.file>>

VARIABLES
    nb,        \* which notebook the kernel is running: "pam" or "dark"
    pc,        \* number of the next code cell in document order
    ns,        \* the kernel's namespace: name -> value
    archive,   \* the files the MAST archive holds: name -> file
    mast,      \* the mastDownload tree: [exists, files: path -> file]
    cwd,       \* the working directory: name -> file
    outcome,   \* per executed cell: how it ended (exception and line)
    failed,    \* the steps that failed, raised or not: {[cell, line]}
    figures,   \* the figures triple_plot_pam has drawn
    adriz_calls \* the AstroDrizzle invocations made

vars == <<nb, pc, ns, archive, mast, cwd, outcome, failed, figures, adriz_calls>>

Defined(names) == names \subseteq DOMAIN ns
NoFiles == [k \in {} |-> 0]

\* The end of cell k: exception exc raised at `line` ("none": the cell ran to
\* its end), sw the lines of the steps that failed without raising, ns2 and
\* cwd2 the namespace and working directory the cell leaves.
End(k, exc, line, sw, ns2, cwd2) ==
    /\ pc' = k + 1
    /\ outcome' = Append(outcome, [cell |-> k, exc |-> exc, line |-> line])
    /\ failed' = failed \cup {[cell |-> k, line |-> l] : l \in sw}
                        \cup (IF exc = "none" THEN {} ELSE {[cell |-> k, line |-> line]})
    /\ ns' = ns2
    /\ cwd' = cwd2

Completed(k) ==
    \E i \in DOMAIN outcome : outcome[i].cell = k /\ outcome[i].exc = "none"
DarkDone(k) == nb = "dark" /\ Completed(k)
PamDone(k) == nb = "pam" /\ Completed(k)
Executed(k) == \E i \in DOMAIN outcome : outcome[i].cell = k
RaisedAt(k, line) ==
    \E i \in DOMAIN outcome :
        outcome[i].cell = k /\ outcome[i].exc # "none" /\ outcome[i].line = line

(***************************************************************************)
(* The archive query and download, and the housekeeping loop, which both   *)
(* notebooks use.                                                          *)
(***************************************************************************)
\* Observations.download_products: every product is listed in the returned
\* table with its local path; the products in errs could not be fetched
\* (status ERROR in the table) and are not on disk.
download_products(products, errs) ==
    [table |-> [i \in DOMAIN products |->
                   [LocalPath |-> LocalPath(products[i]),
                    Status |-> IF products[i].file \in errs THEN "ERROR" ELSE "COMPLETE"]],
     files |-> [path \in {LocalPath(products[i]) : i \in
                            {j \in DOMAIN products : products[j].file \notin errs}}
                   |-> archive[basename(path)]]]

ErrorSets(products) ==
    {E \in SUBSET {products[i].file : i \in DOMAIN products} :
        Cardinality(E) <= MaxDownloadErrors}

\* for row in dl_table: os.rename(row['Local Path'], basename): the rows
\* moved before the first row whose file is not there
RECURSIVE MovedRows(_, _)
MovedRows(rows, tree) ==
    IF rows = <<>> \/ Head(rows).LocalPath \notin DOMAIN tree THEN <<>>
    ELSE <<Head(rows)>> \o MovedRows(Tail(rows), Without(tree, {Head(rows).LocalPath}))

\* the tree removed before the loop moves anything
HousekeepingRmtreeFirst(rows) ==
    [all |-> TRUE, n |-> Len(rows), cwd |-> cwd, files |-> NoFiles]

\* the tree removed although the loop stopped at a row it could not move
HousekeepingRmtreeAlways(rows) ==
    LET moved == MovedRows(rows, mast.files)
        paths == {moved[i].LocalPath : i \in DOMAIN moved}
    IN  [all   |-> Len(moved) = Len(rows),
         n     |-> Len(moved),
         cwd   |-> [f \in {basename(p) : p \in paths} |->
                       mast.files[CHOOSE p \in paths : basename(p) = f]] @@ cwd,
         files |-> NoFiles]

\* the housekeeping loop over the rows of the download tables, in order
Housekeeping(rows) ==
    LET moved == MovedRows(rows, mast.files)
        paths == {moved[i].LocalPath : i \in DOMAIN moved}
    IN  [all   |-> Len(moved) = Len(rows),
         n     |-> Len(moved),
         cwd   |-> [f \in {basename(p) : p \in paths} |->
                       mast.files[CHOOSE p \in paths : basename(p) = f]] @@ cwd,
         files |-> Without(mast.files, paths)]

(***************************************************************************)
(* The pixel-area-map notebook (PAM).                                      *)
(***************************************************************************)
PamImports == {"Observations", "os", "shutil", "pamutils", "fits", "plt"}

\* the one product of obs_id J6ME13QHQ with productSubGroupDescription FLT
PamProducts == <<[obs |-> "j6me13qhq", file |-> "j6me13qhq_flt.fits"]>>

PixelArrays == [1..NPix -> 1..MaxCount]

\* A WFC FLT file: extensions 1-3 are the WFC2 chip, 4-6 the WFC1 chip
\* (extensions 7-15, the distortion tables, are read by no cell).
WfcFlt(f, sci2, sci1, exptime) ==
    FitsFile([k \in {"EXPTIME"} |-> exptime], NoData,
             << HDU("SCI", NoHdr, sci2), HDU("ERR", NoHdr, Arr(f, 2)),
                HDU("DQ", NoHdr, Arr(f, 3)),
                HDU("SCI", NoHdr, sci1), HDU("ERR", NoHdr, Arr(f, 5)),
                HDU("DQ", NoHdr, Arr(f, 6)) >>)

PamArchives ==
    {[f \in {"j6me13qhq_flt.fits"} |-> WfcFlt(f, a, b, t)] :
        a \in PixelArrays, b \in PixelArrays, t \in 1..MaxExpTime}

\* pamutils.pam_from_file(input_file, ext, output_pam): the pixel areas that
\* the WCS of extension ext gives, written as the primary array of a new
\* file.  The areas differ from chip to chip and from pixel to pixel.
pam_from_file(input_file, ext) ==
    [hdr |-> NoHdr, data |-> [i \in 1..NPix |-> ext + i], ext |-> <<>>,
     built_from |-> [file |-> input_file, ext |-> ext]]

\* triple_plot_pam(flt_file, pam_file, figtitle): the figure it draws, with
\* its three panels 'Raw', 'Pixel Area Map' and 'Raw x Pixel Area Map'
triple_plot_pam(flt_file, pam_file, figtitle) ==
    LET fl_img   == getdata_ext(cwd[flt_file], 1)
        pam_img  == getdata(cwd[pam_file])
        pamd_img == [i \in DOMAIN fl_img |-> fl_img[i] * pam_img[i]]
    IN  [figtitle |-> figtitle, flt_file |-> flt_file, pam_file |-> pam_file,
         fl_img |-> fl_img, pam_img |-> pam_img, pamd_img |-> pamd_img]

PamFrame == UNCHANGED <<nb, archive>>

\* PAM cell 1, lines 73-80: the imports
PamCellImports ==
    /\ nb = "pam" /\ pc = 1
    /\ End(1, "none", 0, {}, [n \in PamImports |-> "module"] @@ ns, cwd)
    /\ UNCHANGED <<mast, figures, adriz_calls>> /\ PamFrame

\* PAM cell 2, lines 103-107: query and download
PamCellDownload ==
    /\ nb = "pam" /\ pc = 2
    /\ \/ \* the query cannot reach the archive
          /\ End(2, "ConnectionError", 103, {}, ns, cwd)
          /\ UNCHANGED mast
       \/ \E errs \in ErrorSets(PamProducts) :
            LET dl == download_products(PamProducts, errs) IN
            /\ End(2, "none", 0, {},
                   [obs_table |-> <<"J6ME13QHQ">>, dl_table |-> dl.table] @@ ns, cwd)
            /\ mast' = [exists |-> TRUE, files |-> dl.files @@ mast.files]
    /\ UNCHANGED <<figures, adriz_calls>> /\ PamFrame

\* PAM cell 3, lines 123-128: move the files, remove the tree
PamCellHousekeeping ==
    /\ nb = "pam" /\ pc = 3
    /\ IF ~Defined({"dl_table"})
       THEN End(3, "NameError", 123, {}, ns, cwd) /\ UNCHANGED mast
       ELSE LET rows == ns["dl_table"]
                h    == Housekeeping(rows)
                loop == IF h.n = 0 THEN [k \in {} |-> 0]
                        ELSE [row |-> rows[h.n], oldfname |-> rows[h.n].LocalPath,
                              newfname |-> basename(rows[h.n].LocalPath)]
            IN  IF ~h.all
                THEN \* os.rename raises: shutil.rmtree is not reached
                     /\ End(3, "FileNotFoundError", 126, {},
                            [row |-> rows[h.n + 1],
                             oldfname |-> rows[h.n + 1].LocalPath,
                             newfname |-> basename(rows[h.n + 1].LocalPath)] @@ ns,
                            h.cwd)
                     /\ mast' = [mast EXCEPT !.files = h.files]
                ELSE IF ~mast.exists
                THEN /\ End(3, "FileNotFoundError", 128, {}, loop @@ ns, h.cwd)
                     /\ mast' = [mast EXCEPT !.files = h.files]
                ELSE /\ End(3, "none", 0, {}, loop @@ ns, h.cwd)
                     /\ mast' = [exists |-> FALSE, files |-> NoFiles]
    /\ UNCHANGED <<figures, adriz_calls>> /\ PamFrame

\* PAM cell 4, lines 168-169: hdulist.info()
PamCellInfo ==
    /\ nb = "pam" /\ pc = 4
    /\ IF ~Defined({"fits", "flt_file"})
       THEN End(4, "NameError", 168, {}, ns, cwd)
       ELSE IF ns["flt_file"] \notin DOMAIN cwd
       THEN End(4, "FileNotFoundError", 168, {}, ns, cwd)
       ELSE End(4, "none", 0, {}, [hdulist |-> ns["flt_file"]] @@ ns, cwd)
    /\ UNCHANGED <<mast, figures, adriz_calls>> /\ PamFrame

\* PAM cell 5, line 185: flt_file = 'j6me13qhq_flt.fits'
PamCellFltFile ==
    /\ nb = "pam" /\ pc = 5
    /\ End(5, "none", 0, {}, [flt_file |-> "j6me13qhq_flt.fits"] @@ ns, cwd)
    /\ UNCHANGED <<mast, figures, adriz_calls>> /\ PamFrame

\* pamutils.pam_from_file(flt_file, ext=ext, output_pam=output_pam) as cell k
PamCellPam(k, line, ext, output_pam) ==
    /\ nb = "pam" /\ pc = k
    /\ IF ~Defined({"pamutils", "flt_file"})
       THEN End(k, "NameError", line, {}, ns, cwd)
       ELSE IF ns["flt_file"] \notin DOMAIN cwd
       THEN End(k, "FileNotFoundError", line, {}, ns, cwd)
       ELSE End(k, "none", 0, {}, ns,
                [f \in {output_pam} |-> pam_from_file(ns["flt_file"], ext)] @@ cwd)
    /\ UNCHANGED <<mast, figures, adriz_calls>> /\ PamFrame

\* PAM cell 6, line 204
PamCellWfc2Pam == PamCellPam(6, 204, 1, "j6me13qhq_wfc2_pam.fits")
\* PAM cell 7, line 220
PamCellWfc1Pam == PamCellPam(7, 220, 4, "j6me13qhq_wfc1_pam.fits")

\* PAM cell 8, lines 239-272: the two function definitions
PamCellDefs ==
    /\ nb = "pam" /\ pc = 8
    /\ End(8, "none", 0, {},
           [n \in {"ZScaleInterval", "LinearStretch", "ImageNormalize"} |-> "module"]
           @@ [ds9_imitate |-> "function", triple_plot_pam |-> "function"] @@ ns, cwd)
    /\ UNCHANGED <<mast, figures, adriz_calls>> /\ PamFrame

\* triple_plot_pam(flt_file, pam_file, figtitle) as cell k
PamCellPlot(k, line, pam_file, figtitle) ==
    /\ nb = "pam" /\ pc = k
    /\ IF ~Defined({"triple_plot_pam", "flt_file"})
       THEN End(k, "NameError", line, {}, ns, cwd) /\ UNCHANGED figures
       ELSE IF ~Defined({"fits"})
       THEN End(k, "NameError", 251, {}, ns, cwd) /\ UNCHANGED figures
       ELSE IF ns["flt_file"] \notin DOMAIN cwd
       THEN End(k, "FileNotFoundError", 251, {}, ns, cwd) /\ UNCHANGED figures
       ELSE IF pam_file \notin DOMAIN cwd
       THEN End(k, "FileNotFoundError", 252, {}, ns, cwd) /\ UNCHANGED figures
       ELSE /\ End(k, "none", 0, {}, ns, cwd)
            /\ figures' = Append(figures,
                                 triple_plot_pam(ns["flt_file"], pam_file, figtitle))
    /\ UNCHANGED <<mast, adriz_calls>> /\ PamFrame

\* PAM cell 9, line 281
PamCellPlotWfc2 ==
    PamCellPlot(9, 281, "j6me13qhq_wfc2_pam.fits", "WFC2 PAM Correction Results")
\* PAM cell 10, line 290
PamCellPlotWfc1 ==
    PamCellPlot(10, 290, "j6me13qhq_wfc1_pam.fits", "WFC1 PAM Correction Results")

PamNext ==
    \/ PamCellImports \/ PamCellDownload \/ PamCellHousekeeping \/ PamCellInfo
    \/ PamCellFltFile \/ PamCellWfc2Pam \/ PamCellWfc1Pam \/ PamCellDefs
    \/ PamCellPlotWfc2 \/ PamCellPlotWfc1

(***************************************************************************)
(* The SBC dark-analysis notebook (DARK): the archive.                     *)
(***************************************************************************)
DarkImports ==
    {"os", "shutil", "glob", "plt", "np", "Observations", "adriz", "fits",
     "Table", "wcs", "LogNorm", "EllipticalAperture", "aperture_photometry"}

Min(a, b) == IF a <= b THEN a ELSE b

\* the ASN and FLT products of visit JCMC11, in the order of the recorded
\* download (lines 157-168)
AllSciProducts ==
    << [obs |-> "jcmc11010", file |-> "jcmc11010_asn.fits", kind |-> "asn"],
       [obs |-> "jcmc11ctq", file |-> "jcmc11ctq_flt.fits", kind |-> "flt"],
       [obs |-> "jcmc11e6q", file |-> "jcmc11e6q_flt.fits", kind |-> "flt"],
       [obs |-> "jcmc11030", file |-> "jcmc11030_asn.fits", kind |-> "asn"],
       [obs |-> "jcmc11cxq", file |-> "jcmc11cxq_flt.fits", kind |-> "flt"],
       [obs |-> "jcmc11dsq", file |-> "jcmc11dsq_flt.fits", kind |-> "flt"],
       [obs |-> "jcmc11020", file |-> "jcmc11020_asn.fits", kind |-> "asn"],
       [obs |-> "jcmc11cwq", file |-> "jcmc11cwq_flt.fits", kind |-> "flt"],
       [obs |-> "jcmc11dtq", file |-> "jcmc11dtq_flt.fits", kind |-> "flt"],
       [obs |-> "jcmc11040", file |-> "jcmc11040_asn.fits", kind |-> "asn"],
       [obs |-> "jcmc11deq", file |-> "jcmc11deq_flt.fits", kind |-> "flt"],
       [obs |-> "jcmc11dhq", file |-> "jcmc11dhq_flt.fits", kind |-> "flt"] >>

SciProducts == SubSeq(AllSciProducts, 1, Min(NumSciProducts, Len(AllSciProducts)))

\* only the two dark frames that the text names as the closest ones
DarkProductsNamedInText ==
    << [obs |-> "jcrx01iyq", file |-> "jcrx01iyq_raw.fits", kind |-> "raw"],
       [obs |-> "jcrx01iqq", file |-> "jcrx01iqq_raw.fits", kind |-> "raw"] >>

\* the RAW dark frames that the notebook names, in the order of the
\* recorded download (lines 206, 210, 223); the other 17 darks of program
\* 13961 only add entries to drk_list
DarkProducts ==
    << [obs |-> "jcrx01iyq", file |-> "jcrx01iyq_raw.fits", kind |-> "raw"],
       [obs |-> "jcrx01iiq", file |-> "jcrx01iiq_raw.fits", kind |-> "raw"],
       [obs |-> "jcrx01iqq", file |-> "jcrx01iqq_raw.fits", kind |-> "raw"] >>

FilesOfKind(products, kind) ==
    {products[i].file : i \in {j \in DOMAIN products : products[j].kind = kind}}

FltNames == FilesOfKind(SciProducts, "flt")
AsnNames == FilesOfKind(SciProducts, "asn")
RawNames == FilesOfKind(DarkProducts, "raw")

\* the association a product of the science visit belongs to: the ASN product
\* listed before it
AsnOf(i) ==
    LET before == {j \in 1..i : AllSciProducts[j].kind = "asn"}
    IN  AllSciProducts[CHOOSE j \in before : \A h \in before : h <= j].file

\* the members of an association, in download order
AsnMembers(asn) ==
    SelectIn([i \in DOMAIN SciProducts |-> SciProducts[i].file],
             {SciProducts[i].file : i \in
                 {j \in DOMAIN SciProducts :
                     SciProducts[j].kind = "flt" /\ AsnOf(j) = asn}})

\* glob.glob(pattern): the names of the working directory that match
GlobMatches(suffix) ==
    {f \in DOMAIN cwd :
        \E p \in Range(AllSciProducts) \cup Range(DarkProducts) :
            p.file = f /\ p.kind = suffix}

Temps == MinTemp..MaxTemp

\* Observation log of the science exposures: filter and start of exposure.
\* The two exposures of jcmc11010 are the F165LP ones (lines 439-441, 509);
\* the other values stand for what the archive holds.
ObsLog(f) ==
    CASE f = "jcmc11ctq_flt.fits" -> [filter |-> "F165LP", date |-> "2015-05-11", time |-> "20:10:01"]
      [] f = "jcmc11e6q_flt.fits" -> [filter |-> "F165LP", date |-> "2015-05-12", time |-> "01:40:07"]
      [] f = "jcmc11cxq_flt.fits" -> [filter |-> "F150LP", date |-> "2015-05-11", time |-> "21:02:33"]
      [] f = "jcmc11dsq_flt.fits" -> [filter |-> "F150LP", date |-> "2015-05-12", time |-> "00:48:51"]
      [] f = "jcmc11cwq_flt.fits" -> [filter |-> "F140LP", date |-> "2015-05-11", time |-> "20:49:12"]
      [] f = "jcmc11dtq_flt.fits" -> [filter |-> "F140LP", date |-> "2015-05-12", time |-> "01:02:10"]
      [] f = "jcmc11deq_flt.fits" -> [filter |-> "F125LP", date |-> "2015-05-11", time |-> "22:25:40"]
      [] OTHER                    -> [filter |-> "F125LP", date |-> "2015-05-11", time |-> "23:59:59"]

\* An SBC FLT file (lines 317-328): the temperatures and the WCS solution
\* are in the header of the SCI extension.
SbcFlt(f, t1, t2) ==
    FitsFile(("FILTER1" :> ObsLog(f).filter) @@ ("DATE-OBS" :> ObsLog(f).date)
                @@ ("TIME-OBS" :> ObsLog(f).time) @@ ("EXPTIME" :> <<f, "EXPTIME">>)
                @@ ("ROOTNAME" :> <<f, "ROOTNAME">>),
             NoData,
             << HDU("SCI", ("MDECODT1" :> t1) @@ ("MDECODT2" :> t2)
                            @@ ("WCS" :> <<f, "WCS">>), Arr(f, 1)),
                HDU("ERR", NoHdr, Arr(f, 2)), HDU("DQ", NoHdr, Arr(f, 3)),
                HDU("WCSDVARR", NoHdr, Arr(f, 4)), HDU("WCSDVARR", NoHdr, Arr(f, 5)),
                HDU("WCSCORR", NoHdr, Arr(f, 6)) >>)

\* An SBC RAW file (lines 301-310)
SbcRaw(f) ==
    FitsFile(("EXPTIME" :> <<f, "EXPTIME">>) @@ ("ROOTNAME" :> <<f, "ROOTNAME">>),
             NoData,
             << HDU("SCI", ("WCS" :> <<f, "WCS">>), Arr(f, 1)),
                HDU("ERR", NoHdr, Arr(f, 2)), HDU("DQ", NoHdr, Arr(f, 3)) >>)

\* An association file (lines 287-294): the id and the table of members
AsnFile(p) ==
    FitsFile(("ASN_ID" :> p.obs), NoData, << HDU("ASN", NoHdr, AsnMembers(p.file)) >>)

DarkArchives ==
    {[f \in FltNames \cup AsnNames \cup RawNames |->
         IF f \in FltNames THEN SbcFlt(f, T[f][1], T[f][2])
         ELSE IF f \in RawNames THEN SbcRaw(f)
         ELSE AsnFile(CHOOSE p \in Range(SciProducts) : p.file = f)] :
        T \in [FltNames -> Temps \X Temps]}

(***************************************************************************)
(* DARK: download, housekeeping and the table of temperatures.             *)
(***************************************************************************)
DarkFrame == UNCHANGED <<nb, archive, figures>>

\* DARK cell 1, lines 108-125: the imports
DarkCellImports ==
    /\ nb = "dark" /\ pc = 1
    /\ End(1, "none", 0, {}, [n \in DarkImports |-> "module"] @@ ns, cwd)
    /\ UNCHANGED <<mast, adriz_calls>> /\ DarkFrame

\* query_criteria and download_products as cell k, binding list and table
DarkCellDownload(k, line, list, table, products) ==
    /\ nb = "dark" /\ pc = k
    /\ \/ \* the query cannot reach the archive
          /\ End(k, "ConnectionError", line, {}, ns, cwd)
          /\ UNCHANGED mast
       \/ \E errs \in ErrorSets(products) :
            LET dl == download_products(products, errs) IN
            /\ End(k, "none", 0, {},
                   (list :> [i \in DOMAIN products |-> products[i].obs])
                   @@ (table :> dl.table) @@ ns, cwd)
            /\ mast' = [exists |-> TRUE, files |-> dl.files @@ mast.files]
    /\ UNCHANGED adriz_calls /\ DarkFrame

\* DARK cell 2, lines 173-177: the ASN and FLT files of visit JCMC11
DarkCellDownloadScience ==
    DarkCellDownload(2, 173, "science_list", "sci_dl_table", SciProducts)
\* DARK cell 3, lines 229-233: the RAW dark frames of program 13961
DarkCellDownloadDarks ==
    DarkCellDownload(3, 229, "darks_list", "drk_dl_table", DarkProducts)

\* DARK cell 4, lines 249-256: move the files of both tables, remove the tree
DarkCellHousekeeping ==
    /\ nb = "dark" /\ pc = 4
    /\ IF ~Defined({"sci_dl_table", "drk_dl_table"})
       THEN End(4, "NameError", 249, {}, ns, cwd) /\ UNCHANGED mast
       ELSE LET rows == ns["sci_dl_table"] \o ns["drk_dl_table"]
                h    == Housekeeping(rows)
                last == IF h.all THEN h.n ELSE h.n + 1
                loop == [dl_table |-> IF last <= Len(ns["sci_dl_table"])
                                      THEN ns["sci_dl_table"] ELSE ns["drk_dl_table"],
                         row |-> rows[last], oldfname |-> rows[last].LocalPath,
                         newfname |-> basename(rows[last].LocalPath)]
            IN  IF ~h.all
                THEN \* os.rename raises: shutil.rmtree is not reached
                     /\ End(4, "FileNotFoundError", 254, {}, loop @@ ns, h.cwd)
                     /\ mast' = [mast EXCEPT !.files = h.files]
                ELSE IF ~mast.exists
                THEN /\ End(4, "FileNotFoundError", 256, {}, loop @@ ns, h.cwd)
                     /\ mast' = [mast EXCEPT !.files = h.files]
                ELSE /\ End(4, "none", 0, {}, loop @@ ns, h.cwd)
                     /\ mast' = [exists |-> FALSE, files |-> NoFiles]
    /\ UNCHANGED adriz_calls /\ DarkFrame

\* DARK cell 5, lines 272-274: glob.glob returns the matching names in the
\* order of the directory listing, which is arbitrary
DarkCellGlob ==
    /\ nb = "dark" /\ pc = 5
    /\ IF ~Defined({"glob"})
       THEN End(5, "NameError", 272, {}, ns, cwd)
       ELSE \E a \in Orderings(GlobMatches("asn")) :
            \E f \in Orderings(GlobMatches("flt")) :
            \E d \in Orderings(GlobMatches("raw")) :
              End(5, "none", 0, {},
                  [asn_list |-> a, flt_list |-> f, drk_list |-> d] @@ ns, cwd)
    /\ UNCHANGED <<mast, adriz_calls>> /\ DarkFrame

\* DARK cell 6, lines 357-358: hdulist.info() of the first dark
DarkCellInfo ==
    /\ nb = "dark" /\ pc = 6
    /\ IF ~Defined({"fits", "drk_list"})
       THEN End(6, "NameError", 357, {}, ns, cwd)
       ELSE IF ns["drk_list"] = <<>>
       THEN End(6, "IndexError", 357, {}, ns, cwd)
       ELSE IF ns["drk_list"][1] \notin DOMAIN cwd
       THEN End(6, "FileNotFoundError", 357, {}, ns, cwd)
       ELSE End(6, "none", 0, {}, [hdulist |-> ns["drk_list"][1]] @@ ns, cwd)
    /\ UNCHANGED <<mast, adriz_calls>> /\ DarkFrame

\* widths of the string columns of flt_table: dtype 'S64', 'S19', 'S6'
FileWidth == 64
StartWidth == 19
FilterWidth == 6

\* a value stored in a string column of width w keeps its first w characters
StoreS(str, w) == IF Len(str) <= w THEN str ELSE [first |-> w, of |-> str]

\* DARK cell 7, lines 380-381: the empty table
DarkCellTable ==
    /\ nb = "dark" /\ pc = 7
    /\ IF ~Defined({"Table"})
       THEN End(7, "NameError", 380, {}, ns, cwd)
       ELSE End(7, "none", 0, {}, [flt_table |-> <<>>] @@ ns, cwd)
    /\ UNCHANGED <<mast, adriz_calls>> /\ DarkFrame

\* the slip t1 + t2/2 (the division before the sum)
AvgTempNoParens(t1, t2) == Rat(2 * t1 + t2, 2)

\* lines 409-411: avgtemp = (t1+t2) / 2, a true division
AvgTemp(t1, t2) == Rat(t1 + t2, 2)

\* lines 403-413: the row the loop body adds for one file
TableRow(file) ==
    LET filt == getval(cwd[file], "FILTER1", 0)
        date == getval(cwd[file], "DATE-OBS", 0)
        time == getval(cwd[file], "TIME-OBS", 0)
        t1   == getval(cwd[file], "MDECODT1", 1)
        t2   == getval(cwd[file], "MDECODT2", 1)
        starttime == date \o "T" \o time
        avgtemp   == AvgTemp(t1, t2)
    IN  [file |-> StoreS(file, FileWidth), start |-> StoreS(starttime, StartWidth),
         filter1 |-> StoreS(filt, FilterWidth),
         mdecodt1 |-> t1, mdecodt2 |-> t2, avgtemp |-> avgtemp]

\* the names the loop body binds (lines 403-411)
TableLoopVars(file) ==
    LET r == TableRow(file)
    IN  [file |-> file, filt |-> r.filter1, date |-> getval(cwd[file], "DATE-OBS", 0),
         time |-> getval(cwd[file], "TIME-OBS", 0), t1 |-> r.mdecodt1,
         t2 |-> r.mdecodt2, starttime |-> r.start, avgtemp |-> r.avgtemp]

\* lines 402-413: for file in flt_list: ... flt_table.add_row(...), up to the
\* first file that cannot be read
RECURSIVE AddRows(_, _)
AddRows(table, files) ==
    IF files = <<>> THEN [table |-> table, exc |-> "none", line |-> 0, last |-> <<>>]
    ELSE IF Head(files) \notin DOMAIN cwd
    THEN [table |-> table, exc |-> "FileNotFoundError", line |-> 403, last |-> <<>>]
    ELSE LET rest == AddRows(Append(table, TableRow(Head(files))), Tail(files))
         IN  IF rest.last = <<>> /\ rest.exc = "none"
             THEN [rest EXCEPT !.last = <<Head(files)>>]
             ELSE rest

\* DARK cell 8, lines 402-415: fill the table, print it
DarkCellFillTable ==
    /\ nb = "dark" /\ pc = 8
    /\ IF ~Defined({"flt_list"})
       THEN End(8, "NameError", 402, {}, ns, cwd)
       ELSE IF ns["flt_list"] # <<>> /\ ~Defined({"fits"})
       THEN End(8, "NameError", 403, {}, [file |-> ns["flt_list"][1]] @@ ns, cwd)
       ELSE IF ns["flt_list"] # <<>> /\ ns["flt_list"][1] \in DOMAIN cwd
               /\ ~Defined({"flt_table"})
       THEN End(8, "NameError", 413, {}, TableLoopVars(ns["flt_list"][1]) @@ ns, cwd)
       ELSE IF ~Defined({"flt_table"})
       THEN IF ns["flt_list"] = <<>>
            THEN End(8, "NameError", 415, {}, ns, cwd)
            ELSE End(8, "FileNotFoundError", 403, {},
                     [file |-> ns["flt_list"][1]] @@ ns, cwd)
       ELSE LET r == AddRows(ns["flt_table"], ns["flt_list"])
                loop == IF r.last = <<>> THEN [k \in {} |-> 0]
                        ELSE TableLoopVars(r.last[1])
            IN  End(8, r.exc, r.line, {},
                    [flt_table |-> r.table] @@ loop @@ ns, cwd)
    /\ UNCHANGED <<mast, adriz_calls>> /\ DarkFrame

\* sorting by the first temperature instead of the average
SortKeyFirstTemp(row) == Rat(row.mdecodt1, 1)

\* the column the table is sorted by (line 431)
SortKey(row) == row.avgtemp

\* Table.sort(key): the orders of the rows that are sorted by key; rows with
\* equal keys may come out in any order
SortedOrders(table) ==
    {p \in Orderings(DOMAIN table) :
        \A i, j \in DOMAIN table :
            i < j => RatLeq(SortKey(table[p[i]]), SortKey(table[p[j]]))}

\* DARK cell 9, lines 431-432: sort the table in place, print it
DarkCellSort ==
    /\ nb = "dark" /\ pc = 9
    /\ IF ~Defined({"flt_table"})
       THEN End(9, "NameError", 431, {}, ns, cwd)
       ELSE \E p \in SortedOrders(ns["flt_table"]) :
              End(9, "none", 0, {},
                  [flt_table |-> [i \in DOMAIN p |-> ns["flt_table"][p[i]]]] @@ ns, cwd)
    /\ UNCHANGED <<mast, adriz_calls>> /\ DarkFrame

(***************************************************************************)
(* DARK: drizzling, the dark files, the master dark and the photometry.    *)
(***************************************************************************)
\* the parameters with the cosmic-ray step left on
driz_kwargs_with_driz_cr ==
    [runfile |-> "", context |-> FALSE, build |-> FALSE, preserve |-> FALSE,
     clean |-> TRUE, static |-> FALSE, skysub |-> FALSE, driz_separate |-> FALSE,
     median |-> FALSE, blot |-> FALSE, driz_cr |-> TRUE, driz_combine |-> TRUE,
     final_wcs |-> TRUE, final_scale |-> 25]

\* DARK cell 10, lines 463-476: the AstroDrizzle parameters.  final_scale is
\* in units of 0.001 arcsec.
driz_kwargs ==
    [runfile |-> "", context |-> FALSE, build |-> FALSE, preserve |-> FALSE,
     clean |-> TRUE, static |-> FALSE, skysub |-> FALSE, driz_separate |-> FALSE,
     median |-> FALSE, blot |-> FALSE, driz_cr |-> FALSE, driz_combine |-> TRUE,
     final_wcs |-> TRUE, final_scale |-> 25]

DarkCellDrizKwargs ==
    /\ nb = "dark" /\ pc = 10
    /\ End(10, "none", 0, {}, [driz_kwargs |-> driz_kwargs] @@ ns, cwd)
    /\ UNCHANGED <<mast, adriz_calls>> /\ DarkFrame

\* AstroDrizzle with build=False writes <output>_drz_sci.fits and
\* <output>_drz_wht.fits when driz_combine is on: the combination of the SCI
\* arrays of the inputs, each with its exposure time, at the final scale.
Drizzled(dir, inputs, kwargs) ==
    FitsFile(NoHdr,
             [combined |-> [i \in DOMAIN inputs |->
                               [sci |-> getdata(dir[inputs[i]]),
                                exptime |-> getval(dir[inputs[i]], "EXPTIME", 0),
                                wcs |-> getval(dir[inputs[i]], "WCS", 1)]],
              final_scale |-> kwargs.final_scale],
             <<>>)

\* adriz(input, output=output, **kwargs) on the directory dir: the input
\* files, whether it can run, and the directory it leaves
adriz(dir, inputs, output, kwargs) ==
    [ok  |-> Range(inputs) \subseteq DOMAIN dir,
     dir |-> IF Range(inputs) \subseteq DOMAIN dir /\ kwargs.driz_combine
             THEN ((output \o "_drz_sci.fits") :> Drizzled(dir, inputs, kwargs))
                  @@ ((output \o "_drz_wht.fits") :> FitsFile(NoHdr, <<output, "wht">>, <<>>))
                  @@ dir
             ELSE dir]

\* the FLT files of the members of an association file
AsnInputs(dir, file) == getdata(dir[file])

\* lines 492-494: for file in asn_list: adriz(file, output=asn_id, **kw), up
\* to the first association that cannot be drizzled
RECURSIVE DrizzleAll(_, _, _, _)
DrizzleAll(files, dir, calls, kw) ==
    IF files = <<>>
    THEN [dir |-> dir, calls |-> calls, exc |-> "none", line |-> 0, last |-> <<>>]
    ELSE IF Head(files) \notin DOMAIN dir
    THEN [dir |-> dir, calls |-> calls, exc |-> "FileNotFoundError", line |-> 493,
          last |-> <<Head(files)>>]
    ELSE LET file        == Head(files)
             output_name == getval(dir[file], "ASN_ID", 0)
             call        == [input |-> file, output |-> output_name, kwargs |-> kw]
             run         == adriz(dir, AsnInputs(dir, file), output_name, kw)
         IN  IF ~run.ok
             THEN [dir |-> dir, calls |-> Append(calls, call), exc |-> "OSError",
                   line |-> 494, last |-> <<file>>]
             ELSE LET rest == DrizzleAll(Tail(files), run.dir, Append(calls, call), kw)
                  IN  IF rest.last = <<>> THEN [rest EXCEPT !.last = <<file>>] ELSE rest

\* DARK cell 11, lines 492-494: drizzle every association
DarkCellDrizzleScience ==
    /\ nb = "dark" /\ pc = 11
    /\ IF ~Defined({"asn_list"})
       THEN End(11, "NameError", 492, {}, ns, cwd) /\ UNCHANGED adriz_calls
       ELSE IF ns["asn_list"] # <<>> /\ ~Defined({"fits"})
       THEN /\ End(11, "NameError", 493, {}, [file |-> ns["asn_list"][1]] @@ ns, cwd)
            /\ UNCHANGED adriz_calls
       ELSE IF ns["asn_list"] # <<>> /\ ns["asn_list"][1] \in DOMAIN cwd
               /\ ~Defined({"adriz", "driz_kwargs"})
       THEN /\ End(11, "NameError", 494, {},
                   [file |-> ns["asn_list"][1],
                    output_name |-> getval(cwd[ns["asn_list"][1]], "ASN_ID", 0)] @@ ns,
                   cwd)
            /\ UNCHANGED adriz_calls
       ELSE LET kw == IF Defined({"driz_kwargs"}) THEN ns["driz_kwargs"] ELSE driz_kwargs
                r  == DrizzleAll(ns["asn_list"], cwd, adriz_calls, kw)
                loop == IF r.last = <<>> THEN [k \in {} |-> 0]
                        ELSE IF r.exc = "FileNotFoundError" THEN [file |-> r.last[1]]
                        ELSE [file |-> r.last[1],
                              output_name |-> getval(cwd[r.last[1]], "ASN_ID", 0)]
            IN  /\ End(11, r.exc, r.line, {}, loop @@ ns, r.dir)
                /\ adriz_calls' = r.calls
    /\ UNCHANGED mast /\ DarkFrame

\* DARK cell 12, line 518: the 200x200 box
DarkCellCutter ==
    /\ nb = "dark" /\ pc = 12
    /\ IF ~Defined({"np"})
       THEN End(12, "NameError", 518, {}, ns, cwd)
       ELSE End(12, "none", 0, {},
                [cutter |-> [rows |-> <<650, 850>>, cols |-> <<580, 780>>]] @@ ns, cwd)
    /\ UNCHANGED <<mast, adriz_calls>> /\ DarkFrame

\* the first file of a list that is not in the working directory
RECURSIVE FirstMissing(_)
FirstMissing(files) ==
    IF files = <<>> THEN <<>>
    ELSE IF Head(files) \notin DOMAIN cwd THEN <<Head(files)>>
    ELSE FirstMissing(Tail(files))

\* the names a box-sum loop binds when it has read `file`
BoxLoopVars(file) ==
    [file |-> file, image |-> getdata(cwd[file]),
     img_slice |-> <<getdata(cwd[file]), "cutter">>, neatname |-> file]

\* DARK cell 13, lines 534-552: the box sums of the two science frames and
\* of every dark frame
DarkCellBoxSums ==
    LET sci_list == <<"jcmc11ctq_flt.fits", "jcmc11e6q_flt.fits">>
        ns1      == [sci_list |-> sci_list] @@ ns
        m1       == FirstMissing(sci_list)
    IN
    /\ nb = "dark" /\ pc = 13
    /\ IF ~Defined({"fits"})
       THEN End(13, "NameError", 540, {}, [file |-> sci_list[1]] @@ ns1, cwd)
       ELSE IF m1 # <<>>
       THEN End(13, "FileNotFoundError", 540, {},
                (IF m1[1] = sci_list[1] THEN [file |-> m1[1]]
                 ELSE [file |-> m1[1]] @@ BoxLoopVars(sci_list[1])) @@ ns1, cwd)
       ELSE IF ~Defined({"cutter"})
       THEN End(13, "NameError", 541, {},
                [file |-> sci_list[1], image |-> getdata(cwd[sci_list[1]])] @@ ns1, cwd)
       ELSE IF ~Defined({"drk_list"})
       THEN End(13, "NameError", 549, {}, BoxLoopVars(sci_list[2]) @@ ns1, cwd)
       ELSE LET m2 == FirstMissing(ns["drk_list"]) IN
            IF m2 # <<>>
            THEN End(13, "FileNotFoundError", 550, {},
                     [file |-> m2[1]] @@ BoxLoopVars(sci_list[2]) @@ ns1, cwd)
            ELSE End(13, "none", 0, {},
                     (IF ns["drk_list"] = <<>> THEN BoxLoopVars(sci_list[2])
                      ELSE BoxLoopVars(ns["drk_list"][Len(ns["drk_list"])])) @@ ns1,
                     cwd)
    /\ UNCHANGED <<mast, adriz_calls>> /\ DarkFrame

\* the data put in, the exposure time forgotten
insert_dark_data_only(copy, darkdat, exptime) ==
    [copy EXCEPT !.ext[1].data = darkdat]

\* lines 579-581: with fits.open(new_file, mode='update') as hdu:
\*     hdu[1].data[:,:] = darkdat; hdu[0].header['exptime'] = exptime
insert_dark(copy, darkdat, exptime) ==
    [copy EXCEPT !.ext[1].data = darkdat, !.hdr["EXPTIME"] = exptime]

\* A dark-file cell (cell k, first line l0): copy the science frame with cp,
\* read the dark frame, put its data and exposure time into the copy.
\* os.system returns the exit status of cp, which the cell does not look at.
DarkCellMakeDark(k, l0, flt_file, drk_file, new_file) ==
    LET ns1   == [flt_file |-> flt_file, drk_file |-> drk_file,
                  new_file |-> new_file] @@ ns
        cp_ok == flt_file \in DOMAIN cwd
        sw    == IF cp_ok THEN {} ELSE {l0 + 4}
        cwd1  == IF cp_ok THEN (new_file :> cwd[flt_file]) @@ cwd ELSE cwd
    IN
    /\ nb = "dark" /\ pc = k
    /\ IF ~Defined({"os"})
       THEN End(k, "NameError", l0 + 4, {}, ns1, cwd)
       ELSE IF ~Defined({"fits"})
       THEN End(k, "NameError", l0 + 6, sw, ns1, cwd1)
       ELSE IF drk_file \notin DOMAIN cwd1
       THEN End(k, "FileNotFoundError", l0 + 6, sw, ns1, cwd1)
       ELSE LET darkdat == getdata(cwd1[drk_file])
                exptime == getval(cwd1[drk_file], "EXPTIME", 0)
                ns2     == [darkdat |-> darkdat, exptime |-> exptime] @@ ns1
            IN  IF new_file \notin DOMAIN cwd1
                THEN End(k, "FileNotFoundError", l0 + 9, sw, ns2, cwd1)
                ELSE End(k, "none", 0, sw, [hdu |-> new_file] @@ ns2,
                         (new_file :> insert_dark(cwd1[new_file], darkdat, exptime))
                         @@ cwd1)
    /\ UNCHANGED <<mast, adriz_calls>> /\ DarkFrame

\* DARK cell 14, lines 570-581
DarkCellDark1 ==
    DarkCellMakeDark(14, 570, "jcmc11ctq_flt.fits", "jcrx01iiq_raw.fits", "dark1.fits")
\* DARK cell 15, lines 590-601
DarkCellDark2 ==
    DarkCellMakeDark(15, 590, "jcmc11e6q_flt.fits", "jcrx01iyq_raw.fits", "dark2.fits")

\* the master dark drizzled with parameters of its own
MasterDarkKwargsContext(kw) == [kw EXCEPT !.context = TRUE]

\* line 624: the keyword arguments of the master-dark call, **driz_kwargs
MasterDarkKwargs(kw) == kw

\* DARK cell 16, line 624: the master dark
DarkCellMasterDark ==
    LET inputs == <<"dark1.fits", "dark2.fits">> IN
    /\ nb = "dark" /\ pc = 16
    /\ IF ~Defined({"adriz", "driz_kwargs"})
       THEN End(16, "NameError", 624, {}, ns, cwd) /\ UNCHANGED adriz_calls
       ELSE LET kw   == MasterDarkKwargs(ns["driz_kwargs"])
                run  == adriz(cwd, inputs, "masterdark", kw)
                call == [input |-> inputs, output |-> "masterdark", kwargs |-> kw]
            IN  /\ adriz_calls' = Append(adriz_calls, call)
                /\ IF ~run.ok
                   THEN End(16, "OSError", 624, {}, ns, cwd)
                   ELSE End(16, "none", 0, {}, [adriz_output |-> "AstroDrizzle"] @@ ns,
                            run.dir)
    /\ UNCHANGED mast /\ DarkFrame

\* DARK cell 17, lines 640-656: read and show the two drizzled images
DarkCellShow ==
    /\ nb = "dark" /\ pc = 17
    /\ IF ~Defined({"fits"})
       THEN End(17, "NameError", 640, {}, ns, cwd)
       ELSE IF "jcmc11010_drz_sci.fits" \notin DOMAIN cwd
       THEN End(17, "FileNotFoundError", 640, {}, ns, cwd)
       ELSE LET ns1 == [f165lp |-> getdata(cwd["jcmc11010_drz_sci.fits"])] @@ ns IN
            IF "masterdark_drz_sci.fits" \notin DOMAIN cwd
            THEN End(17, "FileNotFoundError", 641, {}, ns1, cwd)
            ELSE LET ns2 == [masterdark |-> getdata(cwd["masterdark_drz_sci.fits"])]
                            @@ ns1
                 IN  IF ~Defined({"plt"})
                     THEN End(17, "NameError", 643, {}, ns2, cwd)
                     ELSE IF ~Defined({"LogNorm"})
                     THEN End(17, "NameError", 648, {},
                              [fig |-> "figure", ax |-> "axes"] @@ ns2, cwd)
                     ELSE End(17, "none", 0, {},
                              [fig |-> "figure", ax |-> "axes",
                               plt_kwargs |-> "plasma"] @@ ns2, cwd)
    /\ UNCHANGED <<mast, adriz_calls>> /\ DarkFrame

\* DARK cell 18, lines 683-684: the two elliptical apertures
DarkCellAper ==
    /\ nb = "dark" /\ pc = 18
    /\ IF ~Defined({"EllipticalAperture", "np"})
       THEN End(18, "NameError", 683, {}, ns, cwd)
       ELSE End(18, "none", 0, {},
                [aper |-> <<[x |-> 735, y |-> 710], [x |-> 200, y |-> 200]>>] @@ ns, cwd)
    /\ UNCHANGED <<mast, adriz_calls>> /\ DarkFrame

\* DARK cell 19, lines 700-708: the apertures over the two images
DarkCellOverplot ==
    LET ns1 == [fig |-> "figure", ax |-> "axes"] @@ ns IN
    /\ nb = "dark" /\ pc = 19
    /\ IF ~Defined({"plt"})
       THEN End(19, "NameError", 700, {}, ns, cwd)
       ELSE IF ~Defined({"f165lp", "plt_kwargs"})
       THEN End(19, "NameError", 705, {}, ns1, cwd)
       ELSE IF ~Defined({"masterdark"})
       THEN End(19, "NameError", 706, {}, ns1, cwd)
       ELSE IF ~Defined({"aper"})
       THEN End(19, "NameError", 707, {}, ns1, cwd)
       ELSE End(19, "none", 0, {}, ns1, cwd)
    /\ UNCHANGED <<mast, adriz_calls>> /\ DarkFrame

\* photometry that measures the first aperture only
aperture_photometry_first_only(image, aper) ==
    [i \in {j \in DOMAIN aper : j = 1} |->
        [aperture_sum |-> [over |-> aper[i], of |-> image]]]

\* photutils.aperture_photometry(image, aper): one aperture sum per aperture
aperture_photometry(image, aper) ==
    [i \in DOMAIN aper |-> [aperture_sum |-> [over |-> aper[i], of |-> image]]]

\* DARK cell 20, lines 724-738: photometry of both images, the difference
DarkCellPhotometry ==
    /\ nb = "dark" /\ pc = 20
    /\ IF ~Defined({"aperture_photometry", "f165lp", "aper"})
       THEN End(20, "NameError", 724, {}, ns, cwd)
       ELSE LET f165lp_phot == aperture_photometry(ns["f165lp"], ns["aper"])
                ns1 == [f165lp_phot |-> f165lp_phot] @@ ns
            IN  IF ~Defined({"masterdark"})
                THEN End(20, "NameError", 725, {}, ns1, cwd)
                ELSE LET masterdark_phot ==
                             aperture_photometry(ns["masterdark"], ns["aper"])
                         sumdiff == [i \in DOMAIN f165lp_phot |->
                                        [minuend |-> f165lp_phot[i].aperture_sum,
                                         subtrahend |-> masterdark_phot[i].aperture_sum]]
                     IN  End(20, "none", 0, {},
                             [masterdark_phot |-> masterdark_phot,
                              sumdiff |-> sumdiff] @@ ns1, cwd)
    /\ UNCHANGED <<mast, adriz_calls>> /\ DarkFrame

DarkNext ==
    \/ DarkCellImports \/ DarkCellDownloadScience \/ DarkCellDownloadDarks
    \/ DarkCellHousekeeping \/ DarkCellGlob \/ DarkCellInfo \/ DarkCellTable
    \/ DarkCellFillTable \/ DarkCellSort \/ DarkCellDrizKwargs
    \/ DarkCellDrizzleScience \/ DarkCellCutter \/ DarkCellBoxSums
    \/ DarkCellDark1 \/ DarkCellDark2 \/ DarkCellMasterDark \/ DarkCellShow
    \/ DarkCellAper \/ DarkCellOverplot \/ DarkCellPhotometry

Init ==
    /\ nb \in {"pam", "dark"}
    /\ pc = 1
    /\ ns = [k \in {} |-> 0]
    /\ archive \in IF nb = "pam" THEN PamArchives ELSE DarkArchives
    /\ mast = [exists |-> FALSE, files |-> NoFiles]
    /\ cwd = NoFiles
    /\ outcome = <<>>
    /\ failed = {}
    /\ figures = <<>>
    /\ adriz_calls = <<>>

Next == PamNext \/ DarkNext

Spec == Init /\ [][Next]_vars

(***************************************************************************)
(* The interactive use of the dark-analysis notebook: once the cells have  *)
(* been run in document order, the user selects one of the cells that make *)
(* flt_table and runs it again; the cells after it follow in order unless  *)
(* another cell is selected.                                               *)
(***************************************************************************)
\* the last code cell of the dark-analysis notebook (lines 724-738)
LastDarkCell == 20

\* the user selects cell k of the notebook, which was run before
DarkSelect(k) ==
    /\ nb = "dark"
    /\ Len(outcome) >= LastDarkCell
    /\ Len(outcome) < LastDarkCell + MaxReruns
    /\ k # pc
    /\ pc' = k
    /\ UNCHANGED <<nb, ns, archive, mast, cwd, outcome, failed, figures, adriz_calls>>

\* the cells that make flt_table: the empty table (lines 380-381), the loop
\* that fills it (lines 402-415) and the sort (lines 431-432)
RerunCells == {7, 8, 9}

DarkRerun == \E k \in RerunCells : DarkSelect(k)

InitRerun == Init /\ nb = "dark"

NextRerun == DarkNext \/ DarkRerun

SpecRerun == InitRerun /\ [][NextRerun]_vars

(***************************************************************************)
(* The claims.                                                             *)
(***************************************************************************)
Raised(i) == outcome[i].exc # "none"

\* C1: when the cells are executed once in document order, every name a cell
\* reads has been assigned by an earlier cell: no cell ends with a NameError
\* in a run in which every cell before it ran to its end.
C1_NamesAssignedBeforeUse ==
    \A i \in DOMAIN outcome :
        outcome[i].exc = "NameError" => \E j \in 1..(i - 1) : Raised(j)

\* C2: every step that fails raises an exception at that step: no statement
\* swallows its failure and lets the statements after it run.
C2_FailuresRaiseWhereTheyOccur ==
    \A f \in failed : RaisedAt(f.cell, f.line)

RowsOf(table, f) == {i \in DOMAIN table : table[i].file = f}

\* C3: after the table-building loop has run over flt_list from the empty
\* table, flt_table has exactly one row per file of flt_list and no other
\* row; the row of a file holds its name, DATE-OBS + 'T' + TIME-OBS, FILTER1,
\* MDECODT1, MDECODT2 and avgtemp = (MDECODT1 + MDECODT2) / 2, which lies
\* between the two temperatures.
C3_OneRowPerFile ==
    (DarkDone(7) /\ DarkDone(8)) =>
        LET table == ns["flt_table"]
            files == ns["flt_list"]
        IN  /\ Len(table) = Len(files)
            /\ \A i \in DOMAIN table : table[i].file \in Range(files)
            /\ \A f \in Range(files) :
                 /\ Cardinality(RowsOf(table, f)) = 1
                 /\ \A i \in RowsOf(table, f) :
                      LET row == table[i]
                          t1  == archive[f].ext[1].hdr["MDECODT1"]
                          t2  == archive[f].ext[1].hdr["MDECODT2"]
                      IN  /\ row.start = archive[f].hdr["DATE-OBS"] \o "T"
                                           \o archive[f].hdr["TIME-OBS"]
                          /\ row.filter1 = archive[f].hdr["FILTER1"]
                          /\ row.mdecodt1 = t1 /\ row.mdecodt2 = t2
                          /\ 2 * row.avgtemp.num = (t1 + t2) * row.avgtemp.den
                          /\ RatLeq(Rat(Min(t1, t2), 1), row.avgtemp)
                          /\ RatLeq(row.avgtemp, Rat(IF t1 >= t2 THEN t1 ELSE t2, 1))

\* C3 witness: the loop has filled a table of several rows, one of them with
\* two different temperatures
C3_Witness ==
    /\ DarkDone(7) /\ DarkDone(8)
    /\ Len(ns["flt_table"]) >= 2
    /\ \E i \in DOMAIN ns["flt_table"] :
         ns["flt_table"][i].mdecodt1 # ns["flt_table"][i].mdecodt2

Count(table, row) == Cardinality({i \in DOMAIN table : table[i] = row})

\* C4: flt_table.sort('avgtemp') leaves the rows in non-decreasing order of
\* avgtemp, and they are a permutation of the rows before the sort.
C4_SortedPermutation ==
    [][(nb = "dark" /\ pc = 9 /\ outcome' = Append(outcome, [cell |-> 9, exc |-> "none", line |-> 0])) =>
          LET before == ns["flt_table"]
              after  == ns'["flt_table"]
          IN  /\ \A i, j \in DOMAIN after :
                   i < j => RatLeq(after[i].avgtemp, after[j].avgtemp)
              /\ Len(after) = Len(before)
              /\ \A row \in Range(before) \cup Range(after) :
                   Count(before, row) = Count(after, row)]_vars

\* C4 witness: the sort has run on a table whose rows were not in order of
\* avgtemp before it (the rows were added in the order of flt_list)
C4_Witness ==
    /\ DarkDone(8) /\ DarkDone(9)
    /\ \E i, j \in DOMAIN ns["flt_list"] :
         /\ i < j
         /\ LET a == archive[ns["flt_list"][i]].ext[1].hdr
                b == archive[ns["flt_list"][j]].ext[1].hdr
            IN  a["MDECODT1"] + a["MDECODT2"] > b["MDECODT1"] + b["MDECODT2"]

\* C5: the corrected image of the PAM notebook is the image times the PAM,
\* divided by the exposure time: corrected * EXPTIME = image * PAM.
C5_CorrectedIsRate ==
    \A k \in DOMAIN figures :
        LET fig == figures[k]
            exptime == cwd[fig.flt_file].hdr["EXPTIME"]
        IN  \A i \in DOMAIN fig.pamd_img :
                fig.pamd_img[i] * exptime = fig.fl_img[i] * fig.pam_img[i]

\* C6: each pixel area map multiplies the science array of the chip it was
\* built from, in both calls of triple_plot_pam.
C6_PamOnItsOwnChip ==
    \A k \in DOMAIN figures :
        LET fig == figures[k]
            pam == cwd[fig.pam_file]
        IN  /\ fig.pam_img = pam.data
            /\ fig.fl_img = getdata_ext(cwd[pam.built_from.file], pam.built_from.ext)

\* the two dark frames the notebook names as closest to the science frames
NamedDarks == {"jcrx01iqq_raw.fits", "jcrx01iyq_raw.fits"}

DarkFileFrom(new_file, drk) ==
    /\ cwd[new_file].ext[1].data = archive[drk].ext[1].data
    /\ cwd[new_file].hdr["EXPTIME"] = archive[drk].hdr["EXPTIME"]

\* C7: the dark data and the exposure time written into dark1.fits and
\* dark2.fits come from exactly the two raw files jcrx01iqq and jcrx01iyq.
C7_DarksAreTheNamedOnes ==
    (DarkDone(14) /\ DarkDone(15)) =>
        \E d1, d2 \in NamedDarks :
            /\ d1 # d2
            /\ DarkFileFrom("dark1.fits", d1)
            /\ DarkFileFrom("dark2.fits", d2)

\* a dark file made from the science frame flt and the dark frame drk
IsDarkCopy(new, flt, drk) ==
    LET d == cwd[new]
        s == cwd[flt]
        r == cwd[drk]
    IN  /\ d.ext[1].data = r.ext[1].data
        /\ d.hdr["EXPTIME"] = r.hdr["EXPTIME"]
        /\ DOMAIN d.hdr = DOMAIN s.hdr
        /\ \A key \in DOMAIN d.hdr \ {"EXPTIME"} : d.hdr[key] = s.hdr[key]
        /\ d.data = s.data
        /\ Len(d.ext) = Len(s.ext)
        /\ d.ext[1].name = s.ext[1].name /\ d.ext[1].hdr = s.ext[1].hdr
        /\ \A e \in 2..Len(d.ext) : d.ext[e] = s.ext[e]

\* C8: each dark file created is a copy of its science FLT file in which the
\* SCI array is the dark frame's data and the primary EXPTIME the dark
\* frame's EXPTIME; every other keyword (the WCS solution too) and every
\* other extension is that of the science FLT file.
C8_DarkIsCopyWithDarkData ==
    /\ DarkDone(14) =>
           IsDarkCopy("dark1.fits", "jcmc11ctq_flt.fits", "jcrx01iiq_raw.fits")
    /\ DarkDone(15) =>
           IsDarkCopy("dark2.fits", "jcmc11e6q_flt.fits", "jcrx01iyq_raw.fits")

\* C8 witness: both dark files have been made
C8_Witness ==
    /\ DarkDone(14) /\ DarkDone(15)
    /\ cwd["dark1.fits"].hdr["EXPTIME"] # cwd["jcmc11ctq_flt.fits"].hdr["EXPTIME"]

IsScienceCall(call) == call.input \in AsnNames
IsMasterDarkCall(call) == call.output = "masterdark"

\* C9: in every AstroDrizzle invocation steps 1-6 (static, skysub,
\* driz_separate, median, blot, driz_cr) are off, driz_combine is on and the
\* final pixel scale is 0.025 arcsec.
C9_OnlyFinalCombine ==
    \A i \in DOMAIN adriz_calls :
        LET kw == adriz_calls[i].kwargs
        IN  /\ ~kw.static /\ ~kw.skysub /\ ~kw.driz_separate
            /\ ~kw.median /\ ~kw.blot /\ ~kw.driz_cr
            /\ kw.driz_combine
            /\ kw.final_scale = 25

\* C9 witness: the science associations and the master dark have been drizzled
C9_Witness ==
    /\ \E i \in DOMAIN adriz_calls : IsScienceCall(adriz_calls[i])
    /\ \E i \in DOMAIN adriz_calls : IsMasterDarkCall(adriz_calls[i])
    /\ DarkDone(11) /\ DarkDone(16)

\* C10: no cell modifies driz_kwargs once it is defined, and the master dark
\* is drizzled with the parameters of the science products: every invocation
\* made so far used the value driz_kwargs has.
C10_SameDrizzleParameters ==
    [][/\ Defined({"driz_kwargs"}) =>
            "driz_kwargs" \in DOMAIN ns' /\ ns'["driz_kwargs"] = ns["driz_kwargs"]
       /\ \A i \in DOMAIN adriz_calls' :
            /\ "driz_kwargs" \in DOMAIN ns'
            /\ adriz_calls'[i].kwargs = ns'["driz_kwargs"]]_vars

\* C10 witness: science products and the master dark have both been made,
\* from several invocations
C10_Witness ==
    /\ DarkDone(10) /\ DarkDone(11) /\ DarkDone(16)
    /\ Len(adriz_calls) >= 3
    /\ "masterdark_drz_sci.fits" \in DOMAIN cwd
    /\ "jcmc11010_drz_sci.fits" \in DOMAIN cwd


(***************************************************************************)
(* C11, C14: the housekeeping cell (PAM lines 123-128, DARK lines 249-256). *)
(***************************************************************************)
\* a step of the housekeeping cell that ends with exception exc
HousekeepingStep(exc) ==
    /\ \/ nb = "pam" /\ pc = 3
       \/ nb = "dark" /\ pc = 4
    /\ Len(outcome') = Len(outcome) + 1
    /\ outcome'[Len(outcome')].cell = pc
    /\ outcome'[Len(outcome')].exc = exc

\* the rows of the download table(s) the housekeeping cell loops over
ListedRows ==
    IF nb = "pam" THEN ns["dl_table"] ELSE ns["sci_dl_table"] \o ns["drk_dl_table"]

\* C11: when the housekeeping cell completes, every product listed in the
\* download table(s) is a file of the working directory under the basename of
\* its download path, with the content it had in the mastDownload tree, and
\* the tree no longer exists: the tree is removed only after every listed
\* file has been moved out of it.
C11_HousekeepingMovesEveryFile ==
    [][HousekeepingStep("none") =>
         /\ \A i \in DOMAIN ListedRows :
               LET p == ListedRows[i].LocalPath IN
               /\ p \in DOMAIN mast.files
               /\ basename(p) \in DOMAIN cwd'
               /\ cwd'[basename(p)] = mast.files[p]
         /\ ~mast'.exists
         /\ mast'.files = NoFiles]_vars

\* the dark-analysis housekeeping cell completed with both tables listing
\* products: their files are in the working directory and the tree is gone
C11_Witness ==
    /\ DarkDone(4) /\ pc = 5
    /\ Len(ns["sci_dl_table"]) > 0 /\ Len(ns["drk_dl_table"]) > 0
    /\ \A i \in DOMAIN ns["sci_dl_table"] :
          basename(ns["sci_dl_table"][i].LocalPath) \in DOMAIN cwd
    /\ ~mast.exists

\* C14: when os.rename raises in the housekeeping cell, the mastDownload tree
\* is not removed: every file of the tree is either still in the tree or in
\* the working directory under its basename, so no downloaded file is lost.
C14_NoFileLostOnRenameError ==
    [][HousekeepingStep("FileNotFoundError")
       /\ outcome'[Len(outcome')].line \in {126, 254} =>
         /\ mast'.exists = mast.exists
         /\ \A p \in DOMAIN mast.files :
               \/ p \in DOMAIN mast'.files /\ mast'.files[p] = mast.files[p]
               \/ basename(p) \in DOMAIN cwd' /\ cwd'[basename(p)] = mast.files[p]]_vars

\* os.rename raised in the dark-analysis housekeeping cell after it had moved
\* a file and before it had moved another
C14_Witness ==
    /\ nb = "dark" /\ pc = 5 /\ RaisedAt(4, 254)
    /\ mast.exists /\ DOMAIN mast.files # {}
    /\ DOMAIN cwd # {}

(***************************************************************************)
(* C12: the photometry cell (DARK lines 724-738).                          *)
(***************************************************************************)
\* the sum of image over one aperture
ApertureSum(image, ap) == [over |-> ap, of |-> image]

\* C12: when the photometry cell completes, aper holds two apertures, both
\* photometry tables measure those same apertures, the first on the drizzled
\* science image and the second on the master dark, and sumdiff has one value
\* per aperture: the science sum of aperture i minus the dark sum of
\* aperture i.
C12_SumdiffIsScienceMinusDark ==
    DarkDone(20) =>
        LET aper    == ns["aper"]
            sci     == getdata(cwd["jcmc11010_drz_sci.fits"])
            dark    == getdata(cwd["masterdark_drz_sci.fits"])
            sumdiff == ns["sumdiff"]
        IN  /\ Len(aper) = 2
            /\ aper[1] # aper[2]
            /\ DOMAIN ns["f165lp_phot"] = DOMAIN aper
            /\ DOMAIN ns["masterdark_phot"] = DOMAIN aper
            /\ DOMAIN sumdiff = DOMAIN aper
            /\ \A i \in DOMAIN aper :
                  /\ ns["f165lp_phot"][i].aperture_sum = ApertureSum(sci, aper[i])
                  /\ ns["masterdark_phot"][i].aperture_sum = ApertureSum(dark, aper[i])
                  /\ sumdiff[i].minuend = ApertureSum(sci, aper[i])
                  /\ sumdiff[i].subtrahend = ApertureSum(dark, aper[i])

\* the photometry cell completed on two different images
C12_Witness ==
    /\ DarkDone(20) /\ pc = 21
    /\ "sumdiff" \in DOMAIN ns
    /\ ns["f165lp"] # ns["masterdark"]

(***************************************************************************)
(* C13: the files the cells read.                                          *)
(***************************************************************************)
\* the exceptions of a cell that opens a file which is not there
FileErrors == {"FileNotFoundError", "OSError"}

\* the file names written in the code of the cells: PAM line 185; DARK lines
\* 534-535, 570-571, 590-591
HardCodedFiles ==
    IF nb = "pam" THEN {"j6me13qhq_flt.fits"}
    ELSE {"jcmc11ctq_flt.fits", "jcmc11e6q_flt.fits",
          "jcrx01iiq_raw.fits", "jcrx01iyq_raw.fits"}

\* the files of the products the download cells ask for
DownloadedProducts ==
    IF nb = "pam" THEN {PamProducts[i].file : i \in DOMAIN PamProducts}
    ELSE {SciProducts[i].file : i \in DOMAIN SciProducts}
         \cup {DarkProducts[i].file : i \in DOMAIN DarkProducts}

\* the download and housekeeping cells of the open notebook completed
FilesInPlace ==
    \/ PamDone(2) /\ PamDone(3)
    \/ DarkDone(2) /\ DarkDone(3) /\ DarkDone(4)

C15_NoDuplicateRowsOnRerun ==
    nb = "dark" /\ Defined({"flt_table", "flt_list"}) =>
        \A f \in Range(ns["flt_list"]) :
            Cardinality({i \in DOMAIN ns["flt_table"] :
                            ns["flt_table"][i].file = StoreS(f, FileWidth)}) <= 1

====
